---- MODULE Spec2Model ----
(***************************************************************************)
(* ProfilesStore (ui/src/bundle.ts): an observable dictionary of profiles  *)
(* keyed by agent public key, four async operations that each await one    *)
(* ProfilesService call and then write the dictionary inside runInAction,  *)
(* and two computed views.  Every async operation is two atomic steps of   *)
(* the single JavaScript thread: the synchronous part up to the await, and *)
(* the continuation that runs once the service promise has settled.        *)
(***************************************************************************)
EXTENDS Naturals, Sequences, FiniteSets

\* ---------------------------------------------------------------- bounds
MaxOps == 2      \* store operations invoked during one run
MaxLen == 2      \* longest sequence a service call returns

\* ---------------------------------------------------------------- values
myAgentPubKey == "me"

Agents == {myAgentPubKey, "A"}

Profiles ==
  { [nickname |-> "Alice", fields |-> {}],
    [nickname |-> "Bob",   fields |-> {<<"avatar", "img">>}] }

Prefixes == {"Al", "Bo"}

\* records, so that they compare with profiles
Absent == [undefined |-> TRUE]
NoArg  == [none |-> TRUE]

AgentProfile == [agent_pub_key : Agents, profile : Profiles]

RECURSIVE SeqsUpTo(_, _)
SeqsUpTo(S, n) ==
  IF n = 0 THEN {<<>>}
  ELSE LET shorter == SeqsUpTo(S, n - 1)
       IN  shorter \cup {Append(s, x) : s \in {t \in shorter : Len(t) = n - 1}, x \in S}

\* what a settled ProfilesService promise carries
Failure == [ok |-> FALSE, val |-> "ServiceFailure"]

getAllProfilesResults == {[ok |-> TRUE, val |-> s] : s \in SeqsUpTo(AgentProfile, MaxLen)} \cup {Failure}

searchProfilesResults == getAllProfilesResults

getMyProfileResults ==
  {[ok |-> TRUE, val |-> [agent_pub_key |-> myAgentPubKey, profile |-> p]] : p \in Profiles}
    \cup {[ok |-> TRUE, val |-> Absent], Failure}

createProfileResults == {[ok |-> TRUE, val |-> "ack"], Failure}

\* ------------------------------------------------ the profiles dictionary
\* A dictionary is the sequence of its <<key, value>> entries in insertion
\* order, which is the order Object.entries enumerates string keys in.
Keys(cache) == {cache[n][1] : n \in 1..Len(cache)}

Get(cache, k) ==
  IF k \in Keys(cache)
    THEN cache[CHOOSE n \in 1..Len(cache) : cache[n][1] = k][2]
    ELSE Absent

Put_keepExisting(cache, k, v) ==
  IF k \in Keys(cache) THEN cache ELSE Append(cache, <<k, v>>)

Put(cache, k, v) ==
  IF k \in Keys(cache)
    THEN [n \in 1..Len(cache) |-> IF cache[n][1] = k THEN <<k, v>> ELSE cache[n]]
    ELSE Append(cache, <<k, v>>)

MergeAll_replace(cache, entries) ==
  [n \in 1..Len(entries) |-> <<entries[n].agent_pub_key, entries[n].profile>>]

MergeAll_firstOnly(cache, entries) ==
  IF entries = <<>> THEN cache
  ELSE Put(cache, entries[1].agent_pub_key, entries[1].profile)

RECURSIVE MergeAll_firstWins(_, _)
MergeAll_firstWins(cache, entries) ==
  IF entries = <<>> THEN cache
  ELSE LET e == entries[Len(entries)]
       IN  MergeAll_firstWins(Put(cache, e.agent_pub_key, e.profile),
                              SubSeq(entries, 1, Len(entries) - 1))

RECURSIVE MergeAll(_, _)
MergeAll(cache, entries) ==
  IF entries = <<>> THEN cache
  ELSE MergeAll(Put(cache, Head(entries).agent_pub_key, Head(entries).profile),
                Tail(entries))

\* ------------------------------------------------ the async operations
\* <op>Start: the synchronous part, up to the await.  <op>Cont: the
\* continuation.  Both return the dictionary they leave and the service
\* calls they issue; Cont also returns how the operation's promise settles
\* ("awaiting" while it is still suspended).
Call(method, arg) == [method |-> method, arg |-> arg]

fetchAllProfilesStart(cache) ==
  [cache |-> cache, calls |-> <<Call("getAllProfiles", NoArg)>>]

fetchAllProfilesCont_retry(cache, res) ==
  IF res.ok
    THEN [cache |-> MergeAll(cache, res.val), calls |-> <<>>, status |-> "resolved"]
    ELSE [cache |-> cache, calls |-> <<Call("getAllProfiles", NoArg)>>, status |-> "awaiting"]

fetchAllProfilesCont(cache, res) ==
  IF res.ok
    THEN [cache |-> MergeAll(cache, res.val), calls |-> <<>>, status |-> "resolved"]
    ELSE [cache |-> cache, calls |-> <<>>, status |-> "rejected"]

fetchMyProfileStart(cache) ==
  [cache |-> cache, calls |-> <<Call("getMyProfile", NoArg)>>]

fetchMyProfileCont_ifAbsent(cache, res) ==
  IF ~res.ok \/ res.val = Absent
    THEN [cache |-> cache, calls |-> <<>>, status |-> "rejected"]
    ELSE [cache |-> Put_keepExisting(cache, myAgentPubKey, res.val.profile),
          calls |-> <<>>, status |-> "resolved"]

\* myProfile.profile on an undefined myProfile throws a TypeError inside
\* runInAction before the assignment takes place: the promise rejects.
fetchMyProfileCont(cache, res) ==
  IF ~res.ok
    THEN [cache |-> cache, calls |-> <<>>, status |-> "rejected"]
    ELSE IF res.val = Absent
      THEN [cache |-> cache, calls |-> <<>>, status |-> "rejected"]
      ELSE [cache |-> Put(cache, myAgentPubKey, res.val.profile),
            calls |-> <<>>, status |-> "resolved"]

searchProfilesStart(cache, nicknamePrefix) ==
  [cache |-> cache, calls |-> <<Call("searchProfiles", nicknamePrefix)>>]

searchProfilesCont(cache, res) ==
  IF res.ok
    THEN [cache |-> MergeAll(cache, res.val), calls |-> <<>>, status |-> "resolved"]
    ELSE [cache |-> cache, calls |-> <<>>, status |-> "rejected"]

createProfileStart_optimistic(cache, profile) ==
  [cache |-> Put(cache, myAgentPubKey, profile),
   calls |-> <<Call("createProfile", profile)>>]

createProfileStart(cache, profile) ==
  [cache |-> cache, calls |-> <<Call("createProfile", profile)>>]

createProfileCont_swallow(cache, profile, res) ==
  [cache |-> Put(cache, myAgentPubKey, profile), calls |-> <<>>,
   status |-> IF res.ok THEN "resolved" ELSE "rejected"]

createProfileCont_refetch(cache, profile, res) ==
  IF res.ok
    THEN [cache |-> cache, calls |-> <<Call("getMyProfile", NoArg)>>, status |-> "resolved"]
    ELSE [cache |-> cache, calls |-> <<>>, status |-> "rejected"]

createProfileCont(cache, profile, res) ==
  IF res.ok
    THEN [cache |-> Put(cache, myAgentPubKey, profile), calls |-> <<>>, status |-> "resolved"]
    ELSE [cache |-> cache, calls |-> <<>>, status |-> "rejected"]

\* ---------------------------------------------------------------- state
VARIABLES
  profiles,   \* ProfilesStore.profiles
  ops,        \* ops[i]: the i-th invoked operation: its kind and promise
              \* status, its argument and pending service calls while it is
              \* suspended, and the number of service calls it has issued
  svc,        \* svc[i]: how the service call of operation i settled
  delivered,  \* delivered[i]: per agent, the profile operation i was handed
  doneAt      \* doneAt[i]: position of operation i in completion order

vars == <<profiles, ops, svc, delivered, doneAt>>

OpIds == 1..MaxOps

Idle == [kind |-> "none", arg |-> NoArg, status |-> "idle", pending |-> <<>>, ncalls |-> 0]

Nothing == [k \in Agents |-> Absent]

Init ==
  /\ profiles = <<>>
  /\ ops = [i \in OpIds |-> Idle]
  /\ svc = [i \in OpIds |-> "none"]
  /\ delivered = [i \in OpIds |-> Nothing]
  /\ doneAt = [i \in OpIds |-> 0]

\* computed views
myProfile == Get(profiles, myAgentPubKey)

knownProfiles ==
  [n \in 1..Len(profiles) |-> [agent_pub_key |-> profiles[n][1], profile |-> profiles[n][2]]]

\* ------------------------------------------- history (not program state)
\* operations are numbered in invocation order
IsNext(i) == ops[i].status = "idle" /\ \A j \in OpIds : j < i => ops[j].status # "idle"

Completed == {i \in OpIds : doneAt[i] > 0}

\* per agent, the last entry of a returned sequence that names it
LastEntryFor(entries, k) ==
  LET at == {n \in 1..Len(entries) : entries[n].agent_pub_key = k}
  IN  IF at = {} THEN Absent
      ELSE entries[CHOOSE n \in at : \A m \in at : m <= n].profile

Handed(kind, arg, res) ==
  IF ~res.ok THEN Nothing
  ELSE IF kind \in {"fetchAllProfiles", "searchProfiles"}
    THEN [k \in Agents |-> LastEntryFor(res.val, k)]
  ELSE IF kind = "fetchMyProfile"
    THEN [k \in Agents |-> IF k = myAgentPubKey /\ res.val # Absent
                             THEN res.val.profile ELSE Absent]
  ELSE [k \in Agents |-> IF k = myAgentPubKey THEN arg ELSE Absent]

Bulk == {"fetchAllProfiles", "searchProfiles"}

Invoke(i, kind, arg, start) ==
  /\ IsNext(i)
  /\ profiles' = start.cache
  /\ ops' = [ops EXCEPT ![i] = [kind |-> kind, arg |-> arg, status |-> "awaiting",
                                pending |-> start.calls, ncalls |-> Len(start.calls)]]
  /\ svc' = [svc EXCEPT ![i] = "pending"]
  /\ UNCHANGED <<delivered, doneAt>>

Settle(i, kind, res, cont) ==
  /\ ops[i].kind = kind
  /\ ops[i].status = "awaiting"
  /\ profiles' = cont.cache
  /\ ops' = [ops EXCEPT ![i].status = cont.status,
                        ![i].arg = IF cont.status = "awaiting" THEN ops[i].arg ELSE NoArg,
                        ![i].pending = cont.calls,
                        ![i].ncalls = ops[i].ncalls + Len(cont.calls)]
  /\ svc' = [svc EXCEPT ![i] = IF res.ok THEN "ok" ELSE "failed"]
  /\ delivered' = [delivered EXCEPT ![i] = Handed(kind, ops[i].arg, res)]
  /\ doneAt' = [doneAt EXCEPT ![i] = Cardinality(Completed) + 1]

\* --------------------------------------------------------------- actions
fetchAllProfiles(i) ==
  Invoke(i, "fetchAllProfiles", NoArg, fetchAllProfilesStart(profiles))

fetchAllProfilesResume(i, res) ==
  Settle(i, "fetchAllProfiles", res, fetchAllProfilesCont(profiles, res))

fetchMyProfile(i) ==
  Invoke(i, "fetchMyProfile", NoArg, fetchMyProfileStart(profiles))

fetchMyProfileResume(i, res) ==
  Settle(i, "fetchMyProfile", res, fetchMyProfileCont(profiles, res))

searchProfiles(i, nicknamePrefix) ==
  Invoke(i, "searchProfiles", nicknamePrefix, searchProfilesStart(profiles, nicknamePrefix))

searchProfilesResume(i, res) ==
  Settle(i, "searchProfiles", res, searchProfilesCont(profiles, res))

createProfile(i, profile) ==
  Invoke(i, "createProfile", profile, createProfileStart(profiles, profile))

createProfileResume(i, res) ==
  Settle(i, "createProfile", res, createProfileCont(profiles, ops[i].arg, res))

Next ==
  \/ \E i \in OpIds : fetchAllProfiles(i)
  \/ \E i \in OpIds, res \in getAllProfilesResults : fetchAllProfilesResume(i, res)
  \/ \E i \in OpIds : fetchMyProfile(i)
  \/ \E i \in OpIds, res \in getMyProfileResults : fetchMyProfileResume(i, res)
  \/ \E i \in OpIds, nicknamePrefix \in Prefixes : searchProfiles(i, nicknamePrefix)
  \/ \E i \in OpIds, res \in searchProfilesResults : searchProfilesResume(i, res)
  \/ \E i \in OpIds, profile \in Profiles : createProfile(i, profile)
  \/ \E i \in OpIds, res \in createProfileResults : createProfileResume(i, res)

Spec == Init /\ [][Next]_vars

TypeOK ==
  /\ Keys(profiles) \subseteq Agents
  /\ \A i \in OpIds : ops[i].status \in {"idle", "awaiting", "resolved", "rejected"}

\* ------------------------------------------------- history-derived notions
Fetches == Bulk \cup {"fetchMyProfile"}
Mutating == Fetches \cup {"createProfile"}

\* completed operations of the given kinds that were handed a profile for k
Deliverers(k, kinds) ==
  {i \in Completed : ops[i].kind \in kinds /\ delivered[i][k] # Absent}

\* the profile for k handed to the last-completed of those operations
Latest(k, kinds) ==
  LET S == Deliverers(k, kinds)
  IN  IF S = {} THEN Absent
      ELSE delivered[CHOOSE i \in S : \A j \in S : doneAt[j] <= doneAt[i]][k]

Invoked(i) == ops[i].status = "idle" /\ ops'[i].status # "idle"
Failed(i) == svc[i] = "pending" /\ svc'[i] = "failed"
Succeeded(i) == svc[i] = "pending" /\ svc'[i] = "ok"

Visible == {knownProfiles[n] : n \in 1..Len(knownProfiles)}

\* ----------------------------------------------------------------- claims

\* C1: a store operation whose service call fails leaves the cache as it was
\* when the operation was invoked (invoking writes nothing, and the failing
\* continuation writes nothing), and its promise rejects.
C1_FailureLeavesCache ==
  [][\A i \in OpIds :
       /\ Invoked(i) => profiles' = profiles
       /\ Failed(i) => profiles' = profiles /\ ops'[i].status = "rejected"]_vars

\* a failing operation completed after the cache had been filled
C1_Witness ==
  \E i, j \in OpIds :
    /\ svc[i] = "failed" /\ ops[i].status = "rejected"
    /\ 0 < doneAt[j] /\ doneAt[j] < doneAt[i]
    /\ ops[j].status = "resolved"
    /\ Len(profiles) = 2

\* C2: the merge of one fetchAllProfiles or searchProfiles result is one step:
\* the views change only in a step in which one operation's service call
\* returns, and after that step every entry handed to that operation is
\* visible through knownProfiles (and through myProfile for the own key).
C2_MergeAtomic ==
  [][/\ (knownProfiles' # knownProfiles \/ myProfile' # myProfile)
          => \E i \in OpIds : Succeeded(i)
     /\ \A i \in OpIds : Succeeded(i) /\ ops[i].kind \in Bulk =>
          \A k \in Agents : delivered'[i][k] # Absent =>
             /\ [agent_pub_key |-> k, profile |-> delivered'[i][k]] \in Visible'
             /\ k = myAgentPubKey => myProfile' = delivered'[i][k]]_vars

C2_Witness ==
  \E i \in OpIds :
    /\ ops[i].kind \in Bulk
    /\ ops[i].status = "resolved"
    /\ \A k \in Agents : delivered[i][k] # Absent
    /\ \A k \in Agents : [agent_pub_key |-> k, profile |-> delivered[i][k]] \in Visible
    /\ Len(knownProfiles) = 2

\* C3: while only fetchAllProfiles and searchProfiles calls have succeeded,
\* the cache's keys are exactly the agents named by some returned sequence
\* and each holds the last-received profile for its agent.
OnlyBulkSucceeded ==
  \A i \in Completed : svc[i] = "ok" => ops[i].kind \in Bulk

C3_UnionLastReceived ==
  OnlyBulkSucceeded =>
    /\ Keys(profiles) = {k \in Agents : Latest(k, Bulk) # Absent}
    /\ \A k \in Keys(profiles) : Get(profiles, k) = Latest(k, Bulk)

C3_Witness ==
  /\ OnlyBulkSucceeded
  /\ \A i \in OpIds : ops[i].status = "resolved"
  /\ \E i, j \in OpIds, k \in Agents :
       /\ doneAt[i] < doneAt[j]
       /\ delivered[i][k] # Absent /\ delivered[j][k] # Absent
       /\ delivered[i][k] # delivered[j][k]
       /\ Get(profiles, k) = delivered[j][k]
  /\ Cardinality(Keys(profiles)) = 2

\* C4: in the step in which createProfile(p)'s service call succeeds, the
\* promise resolves, myProfile becomes p, and no service call is issued.
C4_CreateEchoesInput ==
  [][\A i \in OpIds : Succeeded(i) /\ ops[i].kind = "createProfile" =>
       /\ ops'[i].status = "resolved"
       /\ myProfile' = ops[i].arg
       /\ \A j \in OpIds : ops'[j].ncalls = ops[j].ncalls]_vars

C4_Witness ==
  \E i, j \in OpIds :
    /\ ops[i].kind = "createProfile" /\ ops[i].status = "resolved"
    /\ ops[i].ncalls = 1
    /\ myProfile = delivered[i][myAgentPubKey]
    /\ doneAt[j] > 0 /\ doneAt[j] < doneAt[i]
    /\ delivered[j][myAgentPubKey] \notin {Absent, myProfile}

\* C5 as stated: every cached profile is the most recent value obtained from
\* the service (returned by getAllProfiles, searchProfiles or getMyProfile)
\* for its agent.
C5_MostRecentFromService ==
  \A k \in Keys(profiles) : Get(profiles, k) = Latest(k, Fetches)

\* C5 as amended: every cached profile is the one handed to the operation
\* that completed last for its agent: the profile the service returned for
\* it, or the profile passed to a createProfile that succeeded.
C5_LastCompletedWrite ==
  \A k \in Keys(profiles) : Get(profiles, k) = Latest(k, Mutating)

C5_Witness ==
  \E i, j \in OpIds :
    /\ ops[i].kind = "createProfile" /\ ops[j].kind \in Fetches
    /\ 0 < doneAt[j] /\ doneAt[j] < doneAt[i]
    /\ delivered[i][myAgentPubKey] # Absent
    /\ delivered[j][myAgentPubKey] \notin {Absent, delivered[i][myAgentPubKey]}
    /\ myProfile = delivered[i][myAgentPubKey]

\* C6: no step removes a key from the cache.
C6_KeysGrow ==
  [][Keys(profiles) \subseteq Keys(profiles')]_vars

C6_Witness ==
  /\ Cardinality(Keys(profiles)) = 2
  /\ \E i, j \in OpIds :
       /\ 0 < doneAt[i] /\ doneAt[i] < doneAt[j]
       /\ \A k \in Agents : delivered[i][k] # Absent
       /\ ops[j].status = "resolved"
       /\ delivered[j][myAgentPubKey] # Absent
       /\ \A k \in Agents \ {myAgentPubKey} : delivered[j][k] = Absent

\* C7: an agent that no successful operation was handed a profile for has
\* no entry in the cache: its lookup is absent, and myProfile is absent
\* when that agent is the store's own.
NeverDelivered(k) == \A i \in OpIds : delivered[i][k] = Absent

C7_AbsentUnlessDelivered ==
  \A k \in Agents : NeverDelivered(k) =>
    /\ Get(profiles, k) = Absent
    /\ k = myAgentPubKey => myProfile = Absent

C7_Witness ==
  /\ NeverDelivered(myAgentPubKey)
  /\ myProfile = Absent
  /\ profiles # <<>>
  /\ \E i \in OpIds : ops[i].kind \in {"createProfile", "fetchMyProfile"}
                       /\ ops[i].status = "rejected"

\* C8: of two completed operations that were handed a profile for the same
\* agent, the one that completed later decides the cached profile (when no
\* third one completed after it), whichever of the two was invoked first.
C8_LastCompletionWins ==
  \A i, j \in Completed, k \in Agents :
    ( /\ delivered[i][k] # Absent /\ delivered[j][k] # Absent
      /\ doneAt[i] < doneAt[j]
      /\ \A l \in Deliverers(k, Mutating) : doneAt[l] <= doneAt[j] )
    => Get(profiles, k) = delivered[j][k]

\* operation j was invoked after i and completed before it
C8_Witness ==
  \E i, j \in OpIds :
    /\ i < j /\ 0 < doneAt[j] /\ doneAt[j] < doneAt[i]
    /\ ops[i].kind \in {"fetchMyProfile", "createProfile"}
    /\ ops[j].kind = "fetchAllProfiles"
    /\ delivered[i][myAgentPubKey] # Absent
    /\ delivered[j][myAgentPubKey] \notin {Absent, delivered[i][myAgentPubKey]}
    /\ myProfile = delivered[i][myAgentPubKey]

\* C9: an operation's promise rejects only when its service call failed.
C9_RejectsOnlyOnServiceFailure ==
  \A i \in OpIds : ops[i].status = "rejected" => svc[i] = "failed"

\* C10: invoking an operation issues exactly one service call, the one that
\* belongs to it with its own argument; no later step issues another call
\* for it, also not after the call failed; and the cache changes only in a
\* step in which a service call returns successfully.
ServiceMethod(kind) ==
  CASE kind = "fetchAllProfiles" -> "getAllProfiles"
    [] kind = "fetchMyProfile"   -> "getMyProfile"
    [] kind = "searchProfiles"   -> "searchProfiles"
    [] kind = "createProfile"    -> "createProfile"

C10_OneCallNoRetry ==
  [][/\ \A i \in OpIds :
          /\ Invoked(i) =>
               /\ ops'[i].ncalls = 1
               /\ ops'[i].pending = <<Call(ServiceMethod(ops'[i].kind), ops'[i].arg)>>
          /\ ~Invoked(i) => ops'[i].ncalls = ops[i].ncalls
          /\ ops'[i].status \in {"resolved", "rejected"} => ops'[i].pending = <<>>
     /\ profiles' # profiles => \E i \in OpIds : Succeeded(i)]_vars

C10_Witness ==
  \E i, j \in OpIds :
    /\ ops[i].status = "rejected" /\ svc[i] = "failed" /\ ops[i].ncalls = 1
    /\ ops[j].kind = "searchProfiles" /\ ops[j].status = "awaiting"
    /\ ops[j].pending = <<Call("searchProfiles", "Bo")>>
    /\ profiles = <<>>
====
